---- MODULE Spec2Model ----
(***************************************************************************)
(* Symmetric shadowcasting field of view (crates/runeforge-fov/src/lib.rs) *)
(* as a state machine.  A caller owns an opacity map and invokes           *)
(* compute_fov / compute_fov_circle on it; one action is one rows.pop(),   *)
(* one iteration of `for col in row.tiles()`, or one iteration of the      *)
(* circle's `for dy` loop.                                                 *)
(***************************************************************************)
EXTENDS Integers, Sequences, FiniteSets, Bags, TLC

VARIABLES
    map,                 \* the caller's opacity predicate (is_blocking)
    calls,               \* completed calls: <<[fn, origin, radius, visible]>>
    pc,                  \* "idle" | "quadrant" | "rows" | "tiles" | "circle" |
                         \* "return" | "panic"
    fn,                  \* function being executed
    origin,              \* argument `origin`
    max_radius,          \* argument `max_radius` / `radius`
    max_radius_squared,  \* local `max_radius_squared` / `radius_squared`
    cardinal,            \* index into Cardinals of the quadrant being scanned
    rows,                \* local `rows: Vec<Row>`, the pending stack
    row,                 \* local `row`, the Row taken by the latest rows.pop()
    col,                 \* loop variable of `for col in row.tiles()`
    max_col,             \* end of the range row.tiles() returned
    prev_tile_blocking,  \* local `prev_tile_blocking: Option<bool>`
    marked,              \* bag of the points mark_visible was invoked with
    queried,             \* bag of the points is_blocking was invoked with
    dy,                  \* loop variable of compute_fov_circle
    popped,              \* what the latest rows.pop() returned, before the
                         \* scan changes `row`, and how many rows it left
    reflected,           \* the axis through the origin across which the
                         \* caller reflected the map before the call in
                         \* progress, "none" if it did not
    unit                 \* a call of one of the private functions: its
                         \* arguments, the function applied, what it returned

vars == <<map, calls, pc, fn, origin, max_radius, max_radius_squared,
          cardinal, rows, row, col, max_col, prev_tile_blocking, marked, queried,
          dy, popped, reflected, unit>>

----------------------------------------------------------------------------
(* Bounds of the checked input family *)

MaxRadius == 2       \* radii 0..MaxRadius on maps with walls
MaxWalls == 2        \* at most MaxWalls walls on an otherwise open map
MaxOpenRadius == 20  \* radii 0..MaxOpenRadius on the open map
OrderRadius == 3     \* radii 0..OrderRadius when rows are taken in any order
OrderWalls == 2      \* at most OrderWalls walls when rows are taken in any order

(* test_fov_with_wall *)
TestOrigin == <<5, 5>>
TestWall == <<7, 7>>
TestRadius == 10

----------------------------------------------------------------------------
(* Point *)

Point_new(x, y) == <<x, y>>

Abs(n) == IF n < 0 THEN -n ELSE n

DistSq(p, q) == (p[1] - q[1]) * (p[1] - q[1]) + (p[2] - q[2]) * (p[2] - q[2])

(* cells with dx^2 + dy^2 <= r^2 around c *)
Disc(c, r) ==
    { <<c[1] + dx, c[2] + ddy>> : <<dx, ddy>> \in
        { d \in (-r..r) \X (-r..r) : d[1] * d[1] + d[2] * d[2] <= r * r } }

----------------------------------------------------------------------------
(* i32 *)

I32Max == 2147483647

(* a * a does not fit an i32 *)
square_overflows(a) == a # 0 /\ Abs(a) > I32Max \div Abs(a)

(* the bytes of an i32, least significant first, in two's complement *)
to_le_bytes(x) ==
    LET u == IF x >= 0 THEN x ELSE (x + I32Max) + 1
    IN  <<u % 256,
          (u \div 256) % 256,
          (u \div 65536) % 256,
          (u \div 16777216) + (IF x >= 0 THEN 0 ELSE 128)>>

from_le_bytes(b) ==
    (b[4] - (IF b[4] >= 128 THEN 256 ELSE 0)) * 16777216
    + b[3] * 65536 + b[2] * 256 + b[1]

(* a * b modulo 2^32, as an i32: the product of a build without overflow   *)
(* checks, computed byte by byte                                           *)
wrapping_mul(a, b) ==
    LET x == to_le_bytes(a)
        y == to_le_bytes(b)
        p1 == x[1] * y[1]
        p2 == x[1] * y[2] + x[2] * y[1] + p1 \div 256
        p3 == x[1] * y[3] + x[2] * y[2] + x[3] * y[1] + p2 \div 256
        p4 == x[1] * y[4] + x[2] * y[3] + x[3] * y[2] + x[4] * y[1]
              + p3 \div 256
    IN  from_le_bytes(<<p1 % 256, p2 % 256, p3 % 256, p4 % 256>>)

(* a + b does not fit an i32 *)
add_overflows(a, b) ==
    \/ b > 0 /\ a > I32Max - b
    \/ b < 0 /\ a < (-I32Max - 1) - b

(* a + b modulo 2^32, as an i32: the sum of a build without overflow       *)
(* checks                                                                  *)
wrapping_add(a, b) ==
    IF b > 0 /\ a > I32Max - b
    THEN ((a - I32Max) - 1) + ((b - I32Max) - 1)
    ELSE IF b < 0 /\ a < (-I32Max - 1) - b
    THEN ((a + I32Max) + 1) + ((b + I32Max) + 1)
    ELSE a + b

(* `a / b` on i32: the quotient truncated towards zero *)
i32_div(a, b) ==
    LET m == IF b > 0 THEN b ELSE -b
        q == a \div m
        t == IF a >= 0 \/ a % m = 0 THEN q ELSE q + 1
    IN  IF b > 0 THEN t ELSE -t

(* `n as usize` keeps the value of an i32 that is not negative and turns a *)
(* negative one into a number above isize::MAX                             *)
fits_capacity(n) == n >= 0

----------------------------------------------------------------------------
(* The opacity predicate: every cell has the background opacity `bg`,      *)
(* except the cells of `flipped`.                                          *)

is_blocking(m, p) == IF p \in m.flipped THEN ~m.bg ELSE m.bg

OpenMap == [bg |-> FALSE, flipped |-> {}]
OpaqueMap == [bg |-> TRUE, flipped |-> {}]
WallTestMap == [bg |-> FALSE, flipped |-> {TestWall}]

----------------------------------------------------------------------------
(* Fraction *)

Fraction_new(n, d) == [numerator |-> n, denominator |-> d]

(* mutant: the numerators are compared, the denominators ignored *)
greater_equal_of_numerators(self, other) == self.numerator >= other.numerator

greater_equal(self, other) ==
    self.numerator * other.denominator >= other.numerator * self.denominator

less_equal(self, other) ==
    self.numerator * other.denominator <= other.numerator * self.denominator

----------------------------------------------------------------------------
(* Quadrant *)

Cardinals == <<"North", "South", "East", "West">>

(* mutant: rows are counted from the origin's own row *)
transform_from_origin(card, o, r, c) ==
    CASE card = "North" -> Point_new(o[1] + c, o[2] - (r - 1))
      [] card = "South" -> Point_new(o[1] + c, o[2] + (r - 1))
      [] card = "East"  -> Point_new(o[1] + (r - 1), o[2] + c)
      [] card = "West"  -> Point_new(o[1] - (r - 1), o[2] + c)

(* mutant: West is computed as East *)
transform_west_as_east(card, o, r, c) ==
    CASE card = "North" -> Point_new(o[1] + c, o[2] - r)
      [] card = "South" -> Point_new(o[1] + c, o[2] + r)
      [] card = "East"  -> Point_new(o[1] + r, o[2] + c)
      [] card = "West"  -> Point_new(o[1] + r, o[2] + c)

transform(card, o, r, c) ==
    CASE card = "North" -> Point_new(o[1] + c, o[2] - r)
      [] card = "South" -> Point_new(o[1] + c, o[2] + r)
      [] card = "East"  -> Point_new(o[1] + r, o[2] + c)
      [] card = "West"  -> Point_new(o[1] - r, o[2] + c)

----------------------------------------------------------------------------
(* Row *)

Row_new(depth, start_slope, end_slope) ==
    [depth |-> depth, start_slope |-> start_slope, end_slope |-> end_slope]

(* num_integer::Integer::div_floor / div_ceil: floor and ceiling of the   *)
(* exact quotient, for a divisor of either sign                            *)
(* mutant: the quotient is truncated towards zero, as `/` does *)
div_trunc(a, b) == i32_div(a, b)

div_floor(a, b) == IF b > 0 THEN a \div b ELSE (-a) \div (-b)

div_ceil(a, b) == -div_floor(-a, b)

round_ties_up_frac(frac, depth) ==
    LET num == frac.numerator * depth * 2 + frac.denominator
        den == frac.denominator * 2
    IN  div_floor(num, den)

(* mutant: the upper column is rounded with floor division *)
round_ties_down_floor(frac, depth) ==
    LET num == frac.numerator * depth * 2 - frac.denominator
        den == frac.denominator * 2
    IN  div_floor(num, den)

round_ties_down_frac(frac, depth) ==
    LET num == frac.numerator * depth * 2 - frac.denominator
        den == frac.denominator * 2
    IN  div_ceil(num, den)

(* the inclusive range min_col..=max_col, as <<min_col, max_col>> *)
tiles(self) ==
    <<round_ties_up_frac(self.start_slope, self.depth),
      round_ties_down_frac(self.end_slope, self.depth)>>

(* mutant: the next row stays at the same depth *)
next_same_depth(self) == Row_new(self.depth, self.start_slope, self.end_slope)

next(self) == Row_new(self.depth + 1, self.start_slope, self.end_slope)

(* mutant: the sign of the slope is carried by the denominator *)
slope_negated(c, depth) == Fraction_new(1 - 2 * c, -2 * depth)

slope(c, depth) == Fraction_new(2 * c - 1, 2 * depth)

(* mutant: floors are tested at the tile's near edge, like walls *)
is_symmetric_at_edge(self, c) ==
    LET s == slope(c, self.depth)
    IN  greater_equal(s, self.start_slope) /\ less_equal(s, self.end_slope)

is_symmetric(self, c) ==
    LET s == Fraction_new(c, self.depth)
    IN  greater_equal(s, self.start_slope) /\ less_equal(s, self.end_slope)

is_wall_visible(self, c) ==
    LET s == slope(c, self.depth)
    IN  greater_equal(s, self.start_slope) /\ less_equal(s, self.end_slope)

----------------------------------------------------------------------------
(* isqrt: Newton's method *)

RECURSIVE isqrt_loop(_, _, _)
isqrt_loop(x, guess, result) ==
    IF result < guess
    THEN isqrt_loop(x, result, (result + x \div result) \div 2)
    ELSE guess

(* mutant: the first guess is returned, the loop is not run *)
isqrt_first_guess(x) ==
    IF x <= 0 THEN 0
    ELSE IF x = 1 THEN 1
    ELSE (x + 1) \div 2

isqrt(x) ==
    IF x <= 0 THEN 0
    ELSE IF x = 1 THEN 1
    ELSE isqrt_loop(x, x, (x + 1) \div 2)

----------------------------------------------------------------------------
(* compute_fov: pieces of the body of `for col in row.tiles()`             *)
(* Option<bool> is <<>> for None and <<b>> for Some(b).                    *)

(* mutant: the cutoff measures the Chebyshev distance *)
out_of_radius_chebyshev(tile, o, r2) ==
    LET dx == Abs(tile[1] - o[1])
        ddy == Abs(tile[2] - o[2])
        m == IF dx > ddy THEN dx ELSE ddy
    IN  m * m > r2

(* mutant: the cutoff excludes the boundary, `>=` for `>` *)
out_of_radius_strict(tile, o, r2) ==
    LET dx == tile[1] - o[1]
        ddy == tile[2] - o[2]
    IN  dx * dx + ddy * ddy >= r2

out_of_radius(tile, o, r2) ==
    LET dx == tile[1] - o[1]
        ddy == tile[2] - o[2]
    IN  dx * dx + ddy * ddy > r2

reveal(self, c, tile_blocking) ==
    \/ tile_blocking /\ is_wall_visible(self, c)
    \/ ~tile_blocking /\ is_symmetric(self, c)

(* mutant: start_slope is never advanced past a wall *)
wall_to_floor_never(prev, tile_blocking) == FALSE

wall_to_floor(prev, tile_blocking) == prev = <<TRUE>> /\ ~tile_blocking

(* mutant: a wall that is the first tile of the row counts as a transition *)
floor_to_wall_or_first(prev, tile_blocking) == prev # <<TRUE>> /\ tile_blocking

floor_to_wall(prev, tile_blocking) == prev = <<FALSE>> /\ tile_blocking

(* mutant: the pushed row keeps the end_slope of the current row *)
split_row_unbounded(self, c) == next(self)

(* mutant: the pushed row ends at the far edge of the wall tile *)
split_row_at_far_edge(self, c) ==
    [next(self) EXCEPT !.end_slope = slope(c + 1, self.depth)]

(* the row pushed at a floor-to-wall transition *)
split_row(self, c) == [next(self) EXCEPT !.end_slope = slope(c, self.depth)]

(* mutant: the depth check is reversed *)
too_deep_reversed(self, radius) == self.depth < radius

too_deep_past_radius(self, radius) == self.depth > radius + 1

too_deep(self, radius) == self.depth > radius

(* mutant: the scan continues to the next row after a wall too *)
ends_on_any_tile(prev) == prev # <<>>

ends_on_floor(prev) == prev = <<FALSE>>

(* rows.pop() takes the last element *)
Top(s) == s[Len(s)]
Pop(s) == SubSeq(s, 1, Len(s) - 1)

----------------------------------------------------------------------------
(* The calls a caller makes on one map: a first call, then one follow-up   *)
(* on the same map: the next radius from the same origin, the circle with  *)
(* the same arguments, or the same radius from another transparent cell.   *)
(* Follow-ups with walls are made on the maps with fewer than MaxWalls     *)
(* walls.                                                                  *)

Origins == {<<0, 0>>, TestOrigin}

(* the subsets of S with at most k elements *)
RECURSIVE SubsetsUpTo(_, _)
SubsetsUpTo(S, k) ==
    IF k = 0 THEN {{}}
    ELSE LET smaller == SubsetsUpTo(S, k - 1)
         IN  smaller \cup { s \cup {x} : s \in smaller, x \in S }

(* open floor around <<0, 0>> with at most MaxWalls walls within MaxRadius *)
SparseMaps ==
    { [bg |-> FALSE, flipped |-> f] :
        f \in SubsetsUpTo(Disc(<<0, 0>>, MaxRadius) \ {<<0, 0>>}, MaxWalls) }

Maps == SparseMaps \cup {OpenMap, OpaqueMap, WallTestMap}

FirstArgs(m) ==
    { <<<<0, 0>>, r>> : r \in 0..MaxRadius }
    \cup (IF m = OpenMap
          THEN { <<<<0, 0>>, r>> : r \in 0..MaxOpenRadius }
               \cup { <<TestOrigin, r>> : r \in 0..TestRadius }
          ELSE {})
    \cup (IF m = WallTestMap
          THEN { <<TestOrigin, r>> : r \in TestRadius..(TestRadius + MaxRadius) }
          ELSE {})

(* the cells of Disc(o, r) after o in row-major order: one of each pair    *)
(* {o + d, o - d}                                                          *)
HalfDisc(o, r) ==
    { q \in Disc(o, r) : q[2] > o[2] \/ (q[2] = o[2] /\ q[1] > o[1]) }

FollowUps(m, c) ==
    IF c.fn # "compute_fov" THEN {}
    ELSE (IF /\ <<c.origin, c.radius + 1>> \in FirstArgs(m)
             /\ c.radius < TestRadius + MaxRadius
             /\ Cardinality(m.flipped) < MaxWalls
          THEN {<<"compute_fov", c.origin, c.radius + 1>>} ELSE {})
         \cup (IF m = OpenMap
               THEN {<<"compute_fov_circle", c.origin, c.radius>>} ELSE {})
         \cup (IF /\ ~m.bg
                  /\ m.flipped \subseteq Disc(<<0, 0>>, MaxRadius)
                  /\ Cardinality(m.flipped) < MaxWalls
                  /\ c.origin = <<0, 0>>
                  /\ c.radius <= MaxRadius
               THEN { <<"compute_fov", b, c.radius>> :
                        b \in { q \in HalfDisc(c.origin, c.radius) :
                                  ~is_blocking(m, q) } }
               ELSE {})

Inputs ==
    IF pc # "idle" THEN {}
    ELSE IF calls = <<>>
    THEN { <<"compute_fov", a[1], a[2]>> : a \in FirstArgs(map) }
         \cup (IF map = OpenMap
               THEN { <<"compute_fov_circle", a[1], a[2]>> : a \in FirstArgs(map) }
               ELSE {})
    ELSE IF Tail(calls) = <<>> THEN FollowUps(map, Head(calls))
    ELSE {}

----------------------------------------------------------------------------
(* State machine *)

NoRow == Row_new(0, Fraction_new(0, 1), Fraction_new(0, 1))

(* no private function is being called on its own.  `result` is <<>>, or   *)
(* <<v>> once v was returned; `panicked` says that the call panicked.      *)
NoUnit == [op |-> "none", args |-> <<>>, result |-> <<>>, panicked |-> FALSE]

(* no row has been popped *)
NoPop == [row |-> NoRow, left |-> 0]

(* `rows.pop()`: the row returned and the number of rows left *)
rows_pop(s) == [row |-> s[Len(s)], left |-> Len(s) - 1]

(* the state before the first call on one of `maps` *)
Start(maps) ==
    /\ map \in maps
    /\ calls = <<>>
    /\ pc = "idle"
    /\ fn = "none"
    /\ origin = <<0, 0>>
    /\ max_radius = 0
    /\ max_radius_squared = 0
    /\ cardinal = 0
    /\ rows = <<>>
    /\ row = NoRow
    /\ col = 0
    /\ max_col = 0
    /\ prev_tile_blocking = <<>>
    /\ marked = EmptyBag
    /\ queried = EmptyBag
    /\ dy = 0
    /\ popped = NoPop
    /\ reflected = "none"
    /\ unit = NoUnit

Init == Start(Maps)

(* mutant: the origin is not marked *)
mark_origin_skipped(o) == EmptyBag

(* `mark_visible(origin)` on entry: the marks made so far *)
mark_origin(o) == SetToBag({o})

(* entry of compute_fov: mark the origin, square the radius *)
compute_fov(o, r) ==
    /\ pc = "idle"
    /\ fn' = "compute_fov"
    /\ origin' = o
    /\ max_radius' = r
    /\ marked' = mark_origin(o)
    /\ queried' = EmptyBag
    /\ max_radius_squared' = wrapping_mul(r, r)
    /\ cardinal' = 1
    /\ rows' = <<>>
    /\ row' = NoRow
    /\ col' = 0
    /\ max_col' = 0
    /\ prev_tile_blocking' = <<>>
    /\ pc' = "quadrant"
    /\ popped' = NoPop
    /\ UNCHANGED <<reflected, unit, map, calls, dy>>

(* `max_radius.min(64)` *)
capacity_hint(r) == IF r < 64 THEN r ELSE 64

(* `for cardinal in [...]`: the next quadrant starts with the depth-1 row *)
EnterQuadrant ==
    /\ pc = "quadrant"
    /\ fits_capacity(capacity_hint(max_radius))
    /\ rows' = <<Row_new(1, Fraction_new(-1, 1), Fraction_new(1, 1))>>
    /\ pc' = "rows"
    /\ UNCHANGED <<reflected, popped, unit, map, calls, fn, origin, max_radius, max_radius_squared,
                   cardinal, row, col, max_col, prev_tile_blocking, marked,
                   queried, dy>>

(* rows.pop() yields a row deeper than max_radius: `continue` *)
DiscardRow ==
    /\ pc = "rows"
    /\ rows # <<>>
    /\ too_deep(Top(rows), max_radius)
    /\ rows' = Pop(rows)
    /\ row' = Top(rows)
    /\ popped' = rows_pop(rows)
    /\ UNCHANGED <<reflected, unit, map, calls, pc, fn, origin, max_radius, max_radius_squared,
                   cardinal, col, max_col, prev_tile_blocking, marked, queried,
                   dy>>

(* rows.pop() yields a row within max_radius: start `for col in row.tiles()` *)
TakeRow ==
    /\ pc = "rows"
    /\ rows # <<>>
    /\ ~too_deep(Top(rows), max_radius)
    /\ rows' = Pop(rows)
    /\ row' = Top(rows)
    /\ prev_tile_blocking' = <<>>
    /\ col' = tiles(Top(rows))[1]
    /\ max_col' = tiles(Top(rows))[2]
    /\ pc' = "tiles"
    /\ popped' = rows_pop(rows)
    /\ UNCHANGED <<reflected, unit, map, calls, fn, origin, max_radius, max_radius_squared,
                   cardinal, marked, queried, dy>>

(* the tile is beyond the radius: `continue` *)
SkipTile ==
    /\ pc = "tiles"
    /\ col <= max_col
    /\ out_of_radius(transform(Cardinals[cardinal], origin, row.depth, col),
                     origin, max_radius_squared)
    /\ col' = col + 1
    /\ UNCHANGED <<reflected, popped, unit, map, calls, pc, fn, origin, max_radius, max_radius_squared,
                   cardinal, rows, row, max_col, prev_tile_blocking, marked,
                   queried, dy>>

(* the tile is within the radius: query it, reveal it, handle transitions *)
VisitTile ==
    /\ pc = "tiles"
    /\ col <= max_col
    /\ LET tile == transform(Cardinals[cardinal], origin, row.depth, col)
           tile_blocking == is_blocking(map, tile)
       IN  /\ ~out_of_radius(tile, origin, max_radius_squared)
           /\ queried' = queried (+) SetToBag({tile})
           /\ marked' = IF reveal(row, col, tile_blocking)
                        THEN marked (+) SetToBag({tile})
                        ELSE marked
           /\ row' = IF wall_to_floor(prev_tile_blocking, tile_blocking)
                     THEN [row EXCEPT !.start_slope = slope(col, row.depth)]
                     ELSE row
           /\ rows' = IF floor_to_wall(prev_tile_blocking, tile_blocking)
                      THEN Append(rows, split_row(row, col))
                      ELSE rows
           /\ prev_tile_blocking' = <<tile_blocking>>
    /\ col' = col + 1
    /\ UNCHANGED <<reflected, popped, unit, map, calls, pc, fn, origin, max_radius, max_radius_squared,
                   cardinal, max_col, dy>>

(* the range is exhausted: continue to the next row after a floor tile *)
EndRow ==
    /\ pc = "tiles"
    /\ col > max_col
    /\ rows' = IF ends_on_floor(prev_tile_blocking)
               THEN Append(rows, next(row))
               ELSE rows
    /\ pc' = "rows"
    /\ UNCHANGED <<reflected, popped, unit, map, calls, fn, origin, max_radius, max_radius_squared,
                   cardinal, row, col, max_col, prev_tile_blocking, marked,
                   queried, dy>>

(* rows.pop() yields None: the quadrant is finished *)
QuadrantDone ==
    /\ pc = "rows"
    /\ rows = <<>>
    /\ IF cardinal < Len(Cardinals)
       THEN cardinal' = cardinal + 1 /\ pc' = "quadrant"
       ELSE cardinal' = cardinal /\ pc' = "return"
    /\ UNCHANGED <<reflected, popped, unit, map, calls, fn, origin, max_radius, max_radius_squared,
                   rows, row, col, max_col, prev_tile_blocking, marked,
                   queried, dy>>

(* entry of compute_fov_circle *)
compute_fov_circle(o, r) ==
    /\ pc = "idle"
    /\ fn' = "compute_fov_circle"
    /\ origin' = o
    /\ max_radius' = r
    /\ max_radius_squared' = wrapping_mul(r, r)
    /\ dy' = -r
    /\ marked' = EmptyBag
    /\ queried' = EmptyBag
    /\ cardinal' = 0
    /\ rows' = <<>>
    /\ row' = NoRow
    /\ col' = 0
    /\ max_col' = 0
    /\ prev_tile_blocking' = <<>>
    /\ pc' = "circle"
    /\ popped' = NoPop
    /\ UNCHANGED <<reflected, unit, map, calls>>

(* the points one `for dy` iteration marks *)
circle_row(o, radius_squared, y) ==
    LET dy_squared == y * y
        max_dx_squared == radius_squared - dy_squared
        max_dx == isqrt(max_dx_squared)
    IN  { Point_new(o[1] + dx, o[2] + y) : dx \in (-max_dx)..max_dx }

CircleRow ==
    /\ pc = "circle"
    /\ dy <= max_radius
    /\ marked' = marked (+) SetToBag(circle_row(origin, max_radius_squared, dy))
    /\ dy' = dy + 1
    /\ UNCHANGED <<reflected, popped, unit, map, calls, pc, fn, origin, max_radius, max_radius_squared,
                   cardinal, rows, row, col, max_col, prev_tile_blocking,
                   queried>>

CircleDone ==
    /\ pc = "circle"
    /\ dy > max_radius
    /\ pc' = "return"
    /\ UNCHANGED <<reflected, popped, unit, map, calls, fn, origin, max_radius, max_radius_squared,
                   cardinal, rows, row, col, max_col, prev_tile_blocking,
                   marked, queried, dy>>

(* the call returns; the caller keeps the set of marked points *)
Return ==
    /\ pc = "return"
    /\ calls' = Append(calls, [fn |-> fn, origin |-> origin, radius |-> max_radius,
                              visible |-> BagToSet(marked)])
    /\ pc' = "idle"
    /\ UNCHANGED <<reflected, popped, unit, map, fn, origin, max_radius, max_radius_squared,
                   cardinal, rows, row, col, max_col, prev_tile_blocking,
                   marked, queried, dy>>

Next ==
    \/ \E i \in Inputs : i[1] = "compute_fov" /\ compute_fov(i[2], i[3])
    \/ \E i \in Inputs : i[1] = "compute_fov_circle" /\ compute_fov_circle(i[2], i[3])
    \/ EnterQuadrant
    \/ DiscardRow
    \/ TakeRow
    \/ SkipTile
    \/ VisitTile
    \/ EndRow
    \/ QuadrantDone
    \/ CircleRow
    \/ CircleDone
    \/ Return

Spec == Init /\ [][Next]_vars

(* the steps of a call in progress: the program is sequential and runs to  *)
(* its return once called; when the caller calls is left open              *)
Run ==
    \/ EnterQuadrant
    \/ DiscardRow
    \/ TakeRow
    \/ SkipTile
    \/ VisitTile
    \/ EndRow
    \/ QuadrantDone
    \/ CircleRow
    \/ CircleDone
    \/ Return

(* the radius r reaches every wall of the sparse map m.  The distance      *)
(* test of compute_fov precedes is_blocking, so a call with a smaller      *)
(* radius never queries the walls beyond it and runs as on the sparse map  *)
(* without them.                                                           *)
ReachesWalls(m, r) ==
    m \in SparseMaps => m.flipped \subseteq Disc(<<0, 0>>, r)

(* one call on the map, run to its return; on a sparse map with a radius   *)
(* that reaches its walls                                                  *)
OneCall ==
    \/ /\ calls = <<>>
       /\ \E i \in Inputs :
            /\ i[1] = "compute_fov"
            /\ ReachesWalls(map, i[3])
            /\ compute_fov(i[2], i[3])
    \/ /\ calls = <<>>
       /\ \E i \in Inputs :
            i[1] = "compute_fov_circle" /\ compute_fov_circle(i[2], i[3])
    \/ Run

FairSpec == Init /\ [][OneCall]_vars /\ WF_vars(Run)

----------------------------------------------------------------------------
(* Calls at the edges of the argument type: max_radius is an i32, so a     *)
(* caller can pass i32::MAX and negative numbers.  A build with overflow   *)
(* checks (debug) panics where a product does not fit; a build without     *)
(* them (release) wraps.                                                   *)

EdgeRadius == 3      \* radii -EdgeRadius..EdgeRadius, and i32::MAX

EdgeMaps == {OpenMap, OpaqueMap, WallTestMap}

EdgeRadii == (-EdgeRadius..EdgeRadius) \cup {I32Max}

EdgeOrigin(m) == IF m = WallTestMap THEN TestOrigin ELSE <<0, 0>>

EdgeInit == Start(EdgeMaps)

(* `max_radius * max_radius` with overflow checks: the call panics after   *)
(* mark_visible(origin)                                                    *)
compute_fov_overflow(o, r) ==
    /\ pc = "idle"
    /\ calls = <<>>
    /\ square_overflows(r)
    /\ fn' = "compute_fov"
    /\ origin' = o
    /\ max_radius' = r
    /\ marked' = mark_origin(o)
    /\ queried' = EmptyBag
    /\ pc' = "panic"
    /\ UNCHANGED <<reflected, popped, unit, map, calls, max_radius_squared, cardinal, rows, row,
                   col, max_col, prev_tile_blocking, dy>>

(* `Vec::with_capacity(max_radius.min(64) as usize)` with a negative       *)
(* max_radius: capacity overflow, the call panics                          *)
CapacityOverflow ==
    /\ pc = "quadrant"
    /\ ~fits_capacity(capacity_hint(max_radius))
    /\ pc' = "panic"
    /\ UNCHANGED <<reflected, popped, unit, map, calls, fn, origin, max_radius,
                   max_radius_squared, cardinal, rows, row, col, max_col,
                   prev_tile_blocking, marked, queried, dy>>

(* one call on the map *)
EdgeNext ==
    \/ \E r \in EdgeRadii : calls = <<>> /\ compute_fov(EdgeOrigin(map), r)
    \/ \E r \in EdgeRadii : compute_fov_overflow(EdgeOrigin(map), r)
    \/ \E r \in EdgeRadii \ {I32Max} :
          calls = <<>> /\ compute_fov_circle(EdgeOrigin(map), r)
    \/ CapacityOverflow
    \/ Run

EdgeSpec == EdgeInit /\ [][EdgeNext]_vars

----------------------------------------------------------------------------
(* The private functions called on their own, as the crate's unit tests    *)
(* call them: a Fraction is constructed from any two i32, then compared    *)
(* or rounded.                                                             *)

UnitMax == 4         \* numerators -UnitMax..UnitMax, denominators and depths
                     \* up to UnitMax

UnitInit == Start({OpenMap})

Returned(op, args, v) ==
    [op |-> op, args |-> args, result |-> <<v>>, panicked |-> FALSE]

Panicked(op, args) ==
    [op |-> op, args |-> args, result |-> <<>>, panicked |-> TRUE]

(* Fraction::new(n, d): a const fn that stores its arguments *)
Fraction_new_call(n, d) ==
    /\ unit.op = "none"
    /\ unit' = Returned("Fraction::new", <<n, d>>, Fraction_new(n, d))
    /\ UNCHANGED <<reflected, popped, map, calls, pc, fn, origin, max_radius, max_radius_squared,
                   cardinal, rows, row, col, max_col, prev_tile_blocking,
                   marked, queried, dy>>

(* the constructed Fraction compared with another *)
greater_equal_call(other) ==
    /\ unit.op = "Fraction::new"
    /\ unit' = Returned("greater_equal", <<unit.result[1], other>>,
                        greater_equal(unit.result[1], other))
    /\ UNCHANGED <<reflected, popped, map, calls, pc, fn, origin, max_radius, max_radius_squared,
                   cardinal, rows, row, col, max_col, prev_tile_blocking,
                   marked, queried, dy>>

(* the constructed Fraction compared the other way *)
less_equal_call(other) ==
    /\ unit.op = "Fraction::new"
    /\ unit' = Returned("less_equal", <<unit.result[1], other>>,
                        less_equal(unit.result[1], other))
    /\ UNCHANGED <<reflected, popped, map, calls, pc, fn, origin, max_radius, max_radius_squared,
                   cardinal, rows, row, col, max_col, prev_tile_blocking,
                   marked, queried, dy>>

(* the constructed Fraction rounded at a depth: div_floor panics on a zero *)
(* divisor                                                                 *)
round_ties_up_frac_call(depth) ==
    /\ unit.op = "Fraction::new"
    /\ unit' = IF unit.result[1].denominator * 2 = 0
               THEN Panicked("round_ties_up_frac", <<unit.result[1], depth>>)
               ELSE Returned("round_ties_up_frac", <<unit.result[1], depth>>,
                             round_ties_up_frac(unit.result[1], depth))
    /\ UNCHANGED <<reflected, popped, map, calls, pc, fn, origin, max_radius, max_radius_squared,
                   cardinal, rows, row, col, max_col, prev_tile_blocking,
                   marked, queried, dy>>

(* the constructed Fraction rounded the other way: div_ceil panics on a   *)
(* zero divisor                                                            *)
round_ties_down_frac_call(depth) ==
    /\ unit.op = "Fraction::new"
    /\ unit' = IF unit.result[1].denominator * 2 = 0
               THEN Panicked("round_ties_down_frac", <<unit.result[1], depth>>)
               ELSE Returned("round_ties_down_frac", <<unit.result[1], depth>>,
                             round_ties_down_frac(unit.result[1], depth))
    /\ UNCHANGED <<reflected, popped, map, calls, pc, fn, origin, max_radius, max_radius_squared,
                   cardinal, rows, row, col, max_col, prev_tile_blocking,
                   marked, queried, dy>>

(* Row::new(depth, the constructed Fraction, end_slope).tiles(), as        *)
(* test_row_tiles calls it                                                 *)
tiles_call(depth, end_slope) ==
    /\ unit.op = "Fraction::new"
    /\ unit.result[1].denominator # 0
    /\ unit' = LET self == Row_new(depth, unit.result[1], end_slope)
               IN  Returned("tiles", <<self>>, tiles(self))
    /\ UNCHANGED <<reflected, popped, map, calls, pc, fn, origin, max_radius, max_radius_squared,
                   cardinal, rows, row, col, max_col, prev_tile_blocking,
                   marked, queried, dy>>

(* test_isqrt *)
IsqrtTests == {0, 1, 4, 9, 10, 15, 16, 100}

(* the arguments isqrt is called with: small ones, those of the test, and  *)
(* the largest two an i32 holds                                            *)
IsqrtArgs ==
    ((-UnitMax)..(UnitMax * UnitMax)) \cup IsqrtTests \cup {I32Max - 1, I32Max}

(* isqrt is in its loop with the locals `guess` and `result` *)
Looping(x, guess, result) ==
    [op |-> "isqrt loop", args |-> <<x, guess, result>>, result |-> <<>>,
     panicked |-> FALSE]

(* isqrt(x) up to the loop: the early returns, then `(guess + 1) / 2`,     *)
(* which panics in a build with overflow checks when guess + 1 does not    *)
(* fit, and wraps in a build without                                       *)
isqrt_call(x) ==
    /\ unit.op = "none"
    /\ IF x <= 0 THEN unit' = Returned("isqrt", <<x>>, 0)
       ELSE IF x = 1 THEN unit' = Returned("isqrt", <<x>>, 1)
       ELSE IF add_overflows(x, 1)
       THEN \/ unit' = Panicked("isqrt", <<x>>)
            \/ unit' = Looping(x, x, i32_div(wrapping_add(x, 1), 2))
       ELSE unit' = Looping(x, x, i32_div(x + 1, 2))
    /\ UNCHANGED <<reflected, popped, map, calls, pc, fn, origin, max_radius, max_radius_squared,
                   cardinal, rows, row, col, max_col, prev_tile_blocking,
                   marked, queried, dy>>

(* one iteration of `while result < guess` *)
isqrt_iterate ==
    /\ unit.op = "isqrt loop"
    /\ unit.args[3] < unit.args[2]
    /\ LET x == unit.args[1]
           guess == unit.args[3]
       IN  unit' = Looping(x, guess, i32_div(guess + i32_div(x, guess), 2))
    /\ UNCHANGED <<reflected, popped, map, calls, pc, fn, origin, max_radius, max_radius_squared,
                   cardinal, rows, row, col, max_col, prev_tile_blocking,
                   marked, queried, dy>>

(* the loop ends: `guess` is returned *)
isqrt_return ==
    /\ unit.op = "isqrt loop"
    /\ ~(unit.args[3] < unit.args[2])
    /\ unit' = Returned("isqrt", <<unit.args[1]>>, unit.args[2])
    /\ UNCHANGED <<reflected, popped, map, calls, pc, fn, origin, max_radius, max_radius_squared,
                   cardinal, rows, row, col, max_col, prev_tile_blocking,
                   marked, queried, dy>>

(* Quadrant { cardinal }.transform(origin, row, col) *)
transform_call(card, o, depth, c) ==
    /\ unit.op = "none"
    /\ unit' = Returned("transform", <<card, o, depth, c>>,
                        transform(card, o, depth, c))
    /\ UNCHANGED <<reflected, popped, map, calls, pc, fn, origin, max_radius, max_radius_squared,
                   cardinal, rows, row, col, max_col, prev_tile_blocking,
                   marked, queried, dy>>

UnitNext ==
    \/ \E k \in DOMAIN Cardinals, o \in Origins, depth \in 1..UnitMax :
          \E c \in (-depth)..depth : transform_call(Cardinals[k], o, depth, c)
    \/ \E x \in IsqrtArgs : isqrt_call(x)
    \/ isqrt_iterate
    \/ isqrt_return
    \/ \E n \in (-UnitMax)..UnitMax, d \in 0..UnitMax : Fraction_new_call(n, d)
    \/ \E n \in (-UnitMax)..UnitMax, d \in 1..UnitMax :
          greater_equal_call(Fraction_new(n, d))
    \/ \E n \in (-UnitMax)..UnitMax, d \in 1..UnitMax :
          less_equal_call(Fraction_new(n, d))
    \/ \E depth \in 1..UnitMax : round_ties_up_frac_call(depth)
    \/ \E depth \in 1..UnitMax : round_ties_down_frac_call(depth)
    \/ \E depth \in 1..UnitMax, n \in (-UnitMax)..UnitMax, d \in 1..UnitMax :
          tiles_call(depth, Fraction_new(n, d))

UnitSpec == UnitInit /\ [][UnitNext]_vars

----------------------------------------------------------------------------
(* The pending rows taken in any order.  `rows` is a work collection: the  *)
(* code takes its last element; a recursive or queue-based implementation  *)
(* takes another.  A caller runs compute_fov as implemented, then the      *)
(* same call again with each pending row taken from any position.          *)

(* mutant: the row at position k is scanned, the last one is removed *)
remove_last(s, k) == Pop(s)

(* the collection left after the row at position k is taken *)
Remove(s, k) == SubSeq(s, 1, k - 1) \o SubSeq(s, k + 1, Len(s))

DiscardAnyRow ==
    /\ pc = "rows"
    /\ \E k \in DOMAIN rows :
        /\ too_deep(rows[k], max_radius)
        /\ rows' = Remove(rows, k)
        /\ row' = rows[k]
        /\ popped' = [row |-> rows[k], left |-> Len(rows) - 1]
    /\ UNCHANGED <<reflected, unit, map, calls, pc, fn, origin, max_radius, max_radius_squared,
                   cardinal, col, max_col, prev_tile_blocking, marked, queried,
                   dy>>

TakeAnyRow ==
    /\ pc = "rows"
    /\ \E k \in DOMAIN rows :
        /\ ~too_deep(rows[k], max_radius)
        /\ rows' = Remove(rows, k)
        /\ row' = rows[k]
        /\ popped' = [row |-> rows[k], left |-> Len(rows) - 1]
        /\ col' = tiles(rows[k])[1]
        /\ max_col' = tiles(rows[k])[2]
    /\ prev_tile_blocking' = <<>>
    /\ pc' = "tiles"
    /\ UNCHANGED <<reflected, unit, map, calls, fn, origin, max_radius, max_radius_squared,
                   cardinal, marked, queried, dy>>

(* the cells the West quadrant scans within radius r of <<0, 0>> *)
WestCone(r) == { p \in Disc(<<0, 0>>, r) : p[1] < 0 /\ Abs(p[2]) <= -p[1] }

(* open floor with at most OrderWalls walls, all in the West quadrant: each *)
(* quadrant has a stack of its own, and walls make it hold several rows    *)
OrderMaps ==
    { [bg |-> FALSE, flipped |-> f] :
        f \in SubsetsUpTo(WestCone(OrderRadius), OrderWalls) }

AnyOrderInit == Start(OrderMaps)

(* the first call, then the same call once more *)
AnyOrderInputs ==
    IF pc # "idle" THEN {}
    ELSE IF calls = <<>> THEN { <<<<0, 0>>, r>> : r \in 0..OrderRadius }
    ELSE IF Tail(calls) = <<>>
    THEN {<<Head(calls).origin, Head(calls).radius>>}
    ELSE {}

AnyOrderNext ==
    \/ \E i \in AnyOrderInputs : compute_fov(i[1], i[2])
    \/ EnterQuadrant
    \/ calls = <<>> /\ DiscardRow
    \/ calls = <<>> /\ TakeRow
    \/ calls # <<>> /\ DiscardAnyRow
    \/ calls # <<>> /\ TakeAnyRow
    \/ SkipTile
    \/ VisitTile
    \/ EndRow
    \/ QuadrantDone
    \/ Return

AnyOrderSpec == AnyOrderInit /\ [][AnyOrderNext]_vars

----------------------------------------------------------------------------
(* A map and its mirror image.  is_blocking is an argument of every call:  *)
(* a caller runs compute_fov on a map, then the same call on the map       *)
(* reflected across the vertical or the horizontal axis through the        *)
(* origin.                                                                 *)

Axes == {"vertical", "horizontal"}

(* the mirror image of p: across the vertical axis through o, x - o.x      *)
(* changes sign; across the horizontal one, y - o.y                        *)
reflect(axis, o, p) ==
    IF axis = "vertical" THEN Point_new(2 * o[1] - p[1], p[2])
    ELSE Point_new(p[1], 2 * o[2] - p[2])

reflect_set(axis, o, S) == { reflect(axis, o, p) : p \in S }

(* the predicate `|p| is_blocking(reflect(p))` *)
reflect_map(axis, o, m) == [m EXCEPT !.flipped = reflect_set(axis, o, @)]

MirrorInit == Start(SparseMaps)

(* the call made before, on the reflected map *)
compute_fov_reflected(axis) ==
    /\ pc = "idle"
    /\ calls # <<>>
    /\ Tail(calls) = <<>>
    /\ reflected = "none"
    /\ reflected' = axis
    /\ map' = reflect_map(axis, Head(calls).origin, map)
    /\ fn' = "compute_fov"
    /\ origin' = Head(calls).origin
    /\ max_radius' = Head(calls).radius
    /\ marked' = mark_origin(Head(calls).origin)
    /\ queried' = EmptyBag
    /\ max_radius_squared' = wrapping_mul(Head(calls).radius, Head(calls).radius)
    /\ cardinal' = 1
    /\ rows' = <<>>
    /\ row' = NoRow
    /\ col' = 0
    /\ max_col' = 0
    /\ prev_tile_blocking' = <<>>
    /\ pc' = "quadrant"
    /\ popped' = NoPop
    /\ UNCHANGED <<unit, calls, dy>>

MirrorNext ==
    \/ \E r \in 0..MaxRadius :
          calls = <<>> /\ ReachesWalls(map, r) /\ compute_fov(<<0, 0>>, r)
    \/ \E axis \in Axes : compute_fov_reflected(axis)
    \/ EnterQuadrant
    \/ DiscardRow
    \/ TakeRow
    \/ SkipTile
    \/ VisitTile
    \/ EndRow
    \/ QuadrantDone
    \/ Return

MirrorSpec == MirrorInit /\ [][MirrorNext]_vars

----------------------------------------------------------------------------
(* Properties *)

(* a bag built with (+) holds positive counts only: its domain is its set *)
Visible == DOMAIN marked

Queried == DOMAIN queried

InFov == fn = "compute_fov" /\ pc # "idle"

Returning == fn = "compute_fov" /\ pc = "return"

FovCalls == { i \in DOMAIN calls : calls[i].fn = "compute_fov" }

(* C1: from the entry of compute_fov on, and in the set every compute_fov  *)
(* call returns, the origin is marked visible, for every map, origin and   *)
(* max_radius >= 0.                                                        *)
C1_OriginVisible ==
    /\ InFov => origin \in Visible
    /\ \A i \in FovCalls : calls[i].origin \in calls[i].visible

(* a compute_fov call with max_radius = 0 on the always-opaque map returned *)
C1_Witness ==
    /\ map = OpaqueMap
    /\ \E i \in FovCalls : calls[i].radius = 0 /\ calls[i].origin \in calls[i].visible

C3_RadiusCutoff ==
    InFov =>
        /\ pc \in {"quadrant", "return"}
           => /\ \A p \in Queried : DistSq(p, origin) <= max_radius * max_radius
              /\ \A p \in Visible : DistSq(p, origin) <= max_radius * max_radius
        /\ pc = "tiles" => row.depth <= max_radius

(* a call with the largest radius on the open map is returning, having     *)
(* queried every cell of the disc but the origin, and no other             *)
C3_Witness ==
    /\ Returning
    /\ map = OpenMap
    /\ max_radius = MaxRadius
    /\ Queried = Disc(origin, max_radius) \ {origin}

(* C4: wall occlusion.  From origin (5,5) with the single wall (7,7) and   *)
(* max_radius >= 10, the visible set holds (7,7), (6,5) and (5,6) and does *)
(* not hold (9,9).                                                         *)
C4_WallOcclusion ==
    /\ Returning
    /\ map = WallTestMap
    /\ origin = TestOrigin
    /\ max_radius >= TestRadius
    => /\ TestWall \in Visible
       /\ <<6, 5>> \in Visible
       /\ <<5, 6>> \in Visible
       /\ <<9, 9>> \notin Visible

(* the wall test is returning with a radius above 10 *)
C4_Witness ==
    /\ Returning
    /\ map = WallTestMap
    /\ origin = TestOrigin
    /\ max_radius > TestRadius
    /\ TestWall \in Visible
    /\ <<9, 9>> \notin Visible

(* C5: on the all-transparent map both compute_fov and compute_fov_circle  *)
(* mark exactly the cells with dx^2 + dy^2 <= r^2, so a compute_fov call   *)
(* and a compute_fov_circle call with the same arguments return the same   *)
(* set.                                                                    *)
C5_CircleEqualsFov ==
    map = OpenMap =>
        /\ pc = "return" => Visible = Disc(origin, max_radius)
        /\ \A i, j \in DOMAIN calls :
              /\ calls[i].origin = calls[j].origin
              /\ calls[i].radius = calls[j].radius
              => calls[i].visible = calls[j].visible

(* compute_fov and then compute_fov_circle returned with radius 20 *)
C5_Witness ==
    /\ map = OpenMap
    /\ \E i, j \in DOMAIN calls :
        /\ calls[i].fn = "compute_fov"
        /\ calls[j].fn = "compute_fov_circle"
        /\ calls[i].radius = 20
        /\ calls[j].radius = 20
        /\ calls[i].origin = calls[j].origin
        /\ calls[i].visible = calls[j].visible

(* C6: monotonic radius.  For two compute_fov calls on the same map from   *)
(* the same origin with radii r and r + 1, the first visible set is a      *)
(* subset of the second.                                                   *)
C6_MonotonicRadius ==
    \A i, j \in FovCalls :
        /\ calls[i].origin = calls[j].origin
        /\ calls[j].radius = calls[i].radius + 1
        => calls[i].visible \subseteq calls[j].visible

(* radii r and r + 1 from one origin on a map with walls, a wall in sight, *)
(* the larger radius seeing strictly more                                  *)
C6_Witness ==
    /\ map.flipped # {}
    /\ \E i, j \in FovCalls :
        /\ calls[i].origin = calls[j].origin
        /\ calls[j].radius = calls[i].radius + 1
        /\ calls[i].visible \cap map.flipped # {}
        /\ calls[i].visible # calls[j].visible
        /\ calls[i].visible \subseteq calls[j].visible

(* C7: expansive walls.  On a map whose only opaque cell W is within       *)
(* max_radius of the origin, a returning compute_fov call has marked W.    *)
C7_ExpansiveWalls ==
    /\ Returning
    /\ ~map.bg
    /\ Cardinality(map.flipped) = 1
    => \A w \in map.flipped :
          w # origin /\ DistSq(w, origin) <= max_radius * max_radius
          => w \in Visible

(* C8: termination.  A compute_fov call that has started returns, with the *)
(* pending stack empty: whatever has happened, the program is again idle   *)
(* with the stack empty at some later time, so no call runs forever.       *)
(* Every step of the call decreases a                                      *)
(* well-founded rank: first the quadrants still to scan, then, depth by    *)
(* depth from the shallowest, the work left at that depth (a pending row   *)
(* of depth d weighs 2d + 3, more than the 2d + 1 tiles it can hold; the   *)
(* row being scanned weighs its tiles left plus one).  A row is only ever  *)
(* pushed one level deeper than the row being scanned, no row deeper than  *)
(* max_radius + 1 is ever pending, and a popped row deeper than max_radius *)
(* is dropped without a query or a mark.                                   *)
QuadrantsLeft ==
    IF pc = "return" THEN 0
    ELSE 2 * (Len(Cardinals) - cardinal + 1) + (IF pc = "quadrant" THEN 1 ELSE 0)

Depths == 1..(max_radius + 1)

WorkAt(d) ==
    Cardinality({ k \in DOMAIN rows : rows[k].depth = d }) * (2 * d + 3)
    + (IF pc = "tiles" /\ row.depth = d THEN max_col - col + 2 ELSE 0)

RankDecreases ==
    \/ QuadrantsLeft' < QuadrantsLeft
    \/ /\ QuadrantsLeft' = QuadrantsLeft
       /\ \E d \in Depths :
            /\ WorkAt(d)' < WorkAt(d)
            /\ \A e \in Depths : e < d => WorkAt(e)' = WorkAt(e)

PushedOneDeeper ==
    pc = "tiles" =>
        \/ rows' = rows
        \/ /\ Len(rows') = Len(rows) + 1
           /\ Pop(rows') = rows
           /\ Top(rows').depth = row.depth + 1

DeepRowsDropped ==
    /\ \A k \in DOMAIN rows' : rows'[k].depth \in Depths
    /\ pc = "rows" /\ rows # <<>> /\ Top(rows).depth > max_radius
       => pc' = "rows" /\ rows' = Pop(rows) /\ UNCHANGED <<marked, queried>>

C8_Termination ==
    /\ [][InFov /\ pc' # "idle"
           => RankDecreases /\ PushedOneDeeper /\ DeepRowsDropped]_vars
    /\ []<>(pc = "idle" /\ rows = <<>>)

(* calls on the always-opaque map and on the open map are returning with   *)
(* the stack empty after the last quadrant                                 *)
C8_Witness ==
    /\ Returning
    /\ map \in {OpaqueMap, OpenMap}
    /\ max_radius = MaxRadius
    /\ cardinal = Len(Cardinals)
    /\ rows = <<>>

(* C9: on the all-transparent map a compute_fov call with max_radius = 4   *)
(* marks exactly 49 distinct cells, the origin among them, for any origin. *)
C9_OpenRoomCount ==
    Returning /\ map = OpenMap /\ max_radius = 4
    => Cardinality(Visible) = 49 /\ origin \in Visible

(* the radius-4 call from (5,5) on the open map is returning with 49 cells *)
C9_Witness ==
    /\ Returning
    /\ map = OpenMap
    /\ max_radius = 4
    /\ origin = TestOrigin
    /\ Cardinality(Visible) = 49

Square(o, r) == { <<o[1] + dx, o[2] + ddy>> : dx \in (-r)..r, ddy \in (-r)..r }

(* C10, as stated: on the all-transparent map the visible set for          *)
(* max_radius = 4 is the whole 9x9 block of cells with                     *)
(* max(|dx|, |dy|) <= 4.                                                   *)
C10_ChebyshevSquare ==
    Returning /\ map = OpenMap /\ max_radius = 4
    => Visible = Square(origin, 4)

(* C10, amended: on the all-transparent map the visible set for            *)
(* max_radius = 4 is the Euclidean disc, the cells with                    *)
(* dx^2 + dy^2 <= 16, which lies inside the 9x9 block and leaves out its   *)
(* corner regions.                                                         *)
C10_EuclideanDisc ==
    Returning /\ map = OpenMap /\ max_radius = 4
    => /\ Visible = { p \in Square(origin, 4) : DistSq(p, origin) <= 16 }
       /\ Visible # Square(origin, 4)

(* the radius-4 call from (0,0) on the open map is returning, with the     *)
(* edge midpoint (4,0) of the block marked and its corner (4,4) not        *)
C10_Witness ==
    /\ Returning
    /\ map = OpenMap
    /\ max_radius = 4
    /\ origin = <<0, 0>>
    /\ <<4, 0>> \in Visible
    /\ <<4, 4>> \notin Visible

(* test_fov_diagonal_visible_empty_room *)
DiagonalRadius == 8

(* the four diagonal cells at distance d from o *)
Diagonals(o, d) ==
    { <<o[1] + d, o[2] + d>>, <<o[1] - d, o[2] + d>>,
      <<o[1] + d, o[2] - d>>, <<o[1] - d, o[2] - d>> }

(* C11: diagonal reachability.  On the all-transparent map with origin     *)
(* (0,0) and radius R, every cell (d,d), (-d,d), (d,-d), (-d,-d) with      *)
(* d >= 1 and 2 d^2 <= R^2 is in the visible set of compute_fov.           *)
C11_DiagonalsVisible ==
    Returning /\ map = OpenMap /\ origin = <<0, 0>>
    => \A d \in 1..max_radius :
          2 * d * d <= max_radius * max_radius
          => Diagonals(origin, d) \subseteq Visible

(* the radius-8 call of the test is returning: the diagonals up to d = 5   *)
(* are marked, those at d = 6 (2 * 36 > 64) are not                        *)
C11_Witness ==
    /\ Returning
    /\ map = OpenMap
    /\ origin = <<0, 0>>
    /\ max_radius = DiagonalRadius
    /\ \A d \in 1..5 : Diagonals(origin, d) \subseteq Visible
    /\ Diagonals(origin, 6) \cap Visible = {}

(* C12: determinism and order independence.  For one map, origin and       *)
(* max_radius, the run that takes the pending rows in any order marks      *)
(* the same set of cells as the run of the code, which takes the last      *)
(* row pushed: while it runs it has marked no other cell, and when it      *)
(* returns it has marked them all.                                         *)
C12_OrderIndependent ==
    /\ InFov /\ calls # <<>> => Visible \subseteq Head(calls).visible
    /\ Returning /\ calls # <<>> => Visible = Head(calls).visible
    /\ \A i, j \in DOMAIN calls : calls[i] = calls[j]

(* the second run is returning with the set of the first, on the map with  *)
(* the wall (-1,0) and radius 3.  The depth-1 row of the West quadrant     *)
(* pushes two rows, [-1, -1/2] and then [1/2, 1], and each continues to    *)
(* depth 3; the code takes the rows of [1/2, 1] first and the depth-3 row  *)
(* of [-1, -1/2] last, and this run took the depth-3 row of [1/2, 1] last. *)
C12_Witness ==
    /\ Returning
    /\ calls # <<>>
    /\ map.flipped = {<<-1, 0>>}
    /\ max_radius = 3
    /\ row = Row_new(3, Fraction_new(1, 2), Fraction_new(1, 1))
    /\ Visible = Head(calls).visible
    /\ <<-2, 1>> \in Visible
    /\ <<-2, 0>> \notin Visible

(* the quadrant `card` of a scan from o holds p: p is                      *)
(* transform(card, o, depth, c) for a depth >= 1 and a c in -depth..depth  *)
InQuadrant(card, o, p) ==
    LET dx == p[1] - o[1]
        ddy == p[2] - o[2]
    IN  CASE card = "North" -> ddy < 0 /\ Abs(dx) <= -ddy
          [] card = "South" -> ddy > 0 /\ Abs(dx) <= ddy
          [] card = "East"  -> dx > 0 /\ Abs(ddy) <= dx
          [] card = "West"  -> dx < 0 /\ Abs(ddy) <= -dx

(* a quadrant's scan has just ended: the next one is about to be entered,  *)
(* or the call is returning.  The bags only grow during a call, so a bound *)
(* on their counts that holds here holds throughout the scan before.       *)
QuadrantEnded == InFov /\ pc \in {"quadrant", "return"}

(* the quadrants scanned so far that hold p *)
ScannedQuadrants(p) ==
    { k \in 1..(IF pc = "quadrant" THEN cardinal - 1 ELSE cardinal) :
        InQuadrant(Cardinals[k], origin, p) }

OnDiagonal(o, p) == Abs(p[1] - o[1]) = Abs(p[2] - o[2])

(* C13, as stated: in a compute_fov call is_blocking is invoked at most    *)
(* once for any cell.                                                      *)
C13_QueriedOnce ==
    InFov => \A p \in Queried : CopiesIn(p, queried) <= 1

(* C13, amended: in a compute_fov call is_blocking is invoked at most once *)
(* per cell by each quadrant's scan, and so at most twice per call: once   *)
(* by each of the two quadrants that hold the cell.                        *)
C13_QueriedOncePerQuadrant ==
    QuadrantEnded =>
        \A p \in Queried :
            /\ CopiesIn(p, queried) <= Cardinality(ScannedQuadrants(p))
            /\ CopiesIn(p, queried) <= 2

(* a call on a map with walls is returning: (1,1) was queried by the South *)
(* and the East quadrant, (1,0) by the East quadrant only, and the walls   *)
(* once or twice                                                           *)
C13_Witness ==
    /\ Returning
    /\ map.flipped # {}
    /\ max_radius = OrderRadius
    /\ CopiesIn(<<1, 1>>, queried) = 2
    /\ CopiesIn(<<1, 0>>, queried) = 1
    /\ map.flipped \subseteq Queried

(* C14: in a compute_fov call mark_visible is invoked for the origin       *)
(* exactly once, before the quadrant scans; no row of any quadrant marks   *)
(* or queries it.                                                          *)
C14_OriginMarkedOnce ==
    InFov => CopiesIn(origin, marked) = 1 /\ origin \notin Queried

(* a call with walls in sight is returning, the origin marked once and a   *)
(* diagonal neighbour twice                                                *)
C14_Witness ==
    /\ Returning
    /\ map.flipped # {}
    /\ max_radius = MaxRadius
    /\ CopiesIn(origin, marked) = 1
    /\ \E p \in Visible : CopiesIn(p, marked) = 2
    /\ Visible \cap map.flipped # {}

(* C15: a cell is revisited only where quadrants meet.  In a compute_fov   *)
(* call a cell marked or queried more than once lies on a diagonal through *)
(* the origin, and within one quadrant no cell is marked by two rows: a    *)
(* cell other than the origin is marked at most once by each quadrant      *)
(* that holds it.                                                          *)
C15_RevisitsOnDiagonals ==
    QuadrantEnded =>
        /\ \A p \in Queried : CopiesIn(p, queried) > 1 => OnDiagonal(origin, p)
        /\ \A p \in Visible :
              /\ CopiesIn(p, marked) > 1 => OnDiagonal(origin, p)
              /\ p # origin =>
                    CopiesIn(p, marked) <= Cardinality(ScannedQuadrants(p))

(* a call on a map with two walls is returning: a row was split, a         *)
(* diagonal cell is marked twice, every cell off the diagonals once        *)
C15_Witness ==
    /\ Returning
    /\ Cardinality(map.flipped) = 2
    /\ max_radius = OrderRadius
    /\ \E p \in Visible : p # origin /\ CopiesIn(p, marked) = 2
    /\ \E p \in Visible : ~OnDiagonal(origin, p)
    /\ \A p \in Visible : ~OnDiagonal(origin, p) => CopiesIn(p, marked) = 1

(* test_fov_circle_bounds *)
CircleTestRadius == 5

(* C16: compute_fov_circle invokes mark_visible exactly once for each cell *)
(* origin + (dx, dy) with dx^2 + dy^2 <= radius^2, the four cells at       *)
(* distance radius along the axes among them, and for no other cell.       *)
C16_CircleMarksDiscOnce ==
    fn = "compute_fov_circle" /\ pc = "return"
    => marked = SetToBag(Disc(origin, max_radius))

(* the circle of the test is returning: radius 5 around (0,0), the four    *)
(* axis cells at distance 5 marked once, (4,4) not marked                  *)
C16_Witness ==
    /\ fn = "compute_fov_circle"
    /\ pc = "return"
    /\ origin = <<0, 0>>
    /\ max_radius = CircleTestRadius
    /\ \A p \in {<<5, 0>>, <<-5, 0>>, <<0, 5>>, <<0, -5>>} : CopiesIn(p, marked) = 1
    /\ <<4, 4>> \notin Visible

(* C17: with max_radius = i32::MAX the range of compute_fov is unlimited:  *)
(* no tile of a row being scanned is excluded by the distance cutoff, the  *)
(* squared radius, computed in 32 bits, being at least dx*dx + dy*dy.      *)
C17_UnlimitedRange ==
    InFov /\ max_radius = I32Max /\ pc = "tiles" /\ col <= max_col
    => ~out_of_radius(transform(Cardinals[cardinal], origin, row.depth, col),
                      origin, max_radius_squared)

(* C18: a Fraction with a zero denominator is rejected at construction:    *)
(* Fraction::new(n, 0) panics and returns no value, so no comparison and   *)
(* no rounding is ever applied to a Fraction with a zero denominator.      *)
C18_ZeroDenominatorRejected ==
    /\ unit.op = "Fraction::new" /\ unit.args[2] = 0
       => unit.panicked /\ unit.result = <<>>
    /\ unit.op \in {"greater_equal", "round_ties_up_frac"}
       => unit.args[1].denominator # 0

(* C19: the radius argument cannot make a call fail: no call of            *)
(* compute_fov or compute_fov_circle with a negative radius is made or     *)
(* reaches a panic.                                                        *)
C19_RadiusCannotFail == max_radius < 0 => pc # "panic"

(* C20: walls are revealed at least as liberally as floors.  For the row   *)
(* being scanned and every column of its tiles(), is_symmetric implies     *)
(* is_wall_visible.                                                        *)
C20_WallsAtLeastAsVisible ==
    InFov /\ pc = "tiles"
    => \A c \in tiles(row)[1]..tiles(row)[2] :
          is_symmetric(row, c) => is_wall_visible(row, c)

(* the row being scanned, seen from outside the loop: the columns of its   *)
(* range scanned so far that are within the radius, their opacity on the   *)
(* map, and the transitions between consecutive ones                       *)
ScanTile(c) == transform(Cardinals[cardinal], origin, popped.row.depth, c)

ScannedCols ==
    { c \in tiles(popped.row)[1]..(col - 1) :
        DistSq(ScanTile(c), origin) <= max_radius * max_radius }

Largest(S) == CHOOSE c \in S : \A b \in S : b <= c

ColsBefore(c) == { b \in ScannedCols : b < c }

Opaque(c) == is_blocking(map, ScanTile(c))

FloorToWallCols ==
    { c \in ScannedCols :
        /\ Opaque(c)
        /\ ColsBefore(c) # {}
        /\ ~Opaque(Largest(ColsBefore(c))) }

WallToFloorCols ==
    { c \in ScannedCols :
        /\ ~Opaque(c)
        /\ ColsBefore(c) # {}
        /\ Opaque(Largest(ColsBefore(c))) }

(* the start_slope the row has when column c is reached *)
StartSlopeAt(c) ==
    LET advanced == { a \in WallToFloorCols : a < c }
    IN  IF advanced = {} THEN popped.row.start_slope
        ELSE [numerator |-> 2 * Largest(advanced) - 1,
              denominator |-> 2 * popped.row.depth]

(* the rows pushed since the row being scanned was popped *)
Spawned == SubSeq(rows, popped.left + 1, Len(rows))

(* C21: rows spawned by one row.  While a row of depth d is scanned, the   *)
(* rows pushed are one per transparent-to-opaque transition between        *)
(* consecutive in-radius tiles, each of depth d + 1, with end_slope        *)
(* (2c - 1)/(2d) for its column c and the start_slope the row has at that  *)
(* moment; when the range is exhausted one more row of depth d + 1 with    *)
(* the row's slopes is pushed if the last in-radius tile is transparent,   *)
(* and none if it is opaque or no tile was in radius.                      *)
C21_RowsSpawned ==
    /\ [](InFov /\ pc = "tiles"
          => /\ Len(Spawned) = Cardinality(FloorToWallCols)
             /\ { Spawned[i] : i \in DOMAIN Spawned }
                  = { [depth |-> popped.row.depth + 1,
                       start_slope |-> StartSlopeAt(c),
                       end_slope |-> [numerator |-> 2 * c - 1,
                                      denominator |-> 2 * popped.row.depth]] :
                        c \in FloorToWallCols }
             /\ row = [popped.row EXCEPT !.start_slope = StartSlopeAt(col)])
    /\ [][InFov /\ pc = "tiles" /\ pc' = "rows"
           => rows' = IF ScannedCols # {} /\ ~Opaque(Largest(ScannedCols))
                      THEN Append(rows, [row EXCEPT !.depth = row.depth + 1])
                      ELSE rows]_vars

(* a row of depth 2 has been scanned to its end: floor, wall, floor, wall, *)
(* floor; two rows were pushed and the start_slope was advanced            *)
C21_Witness ==
    /\ InFov
    /\ pc = "tiles"
    /\ col > max_col
    /\ popped.row.depth = 2
    /\ Cardinality(FloorToWallCols) = 2
    /\ WallToFloorCols # {}
    /\ Len(Spawned) = 2
    /\ row.start_slope # popped.row.start_slope

(* a row none of whose tiles is in radius has been scanned to its end *)
C21_NoneInRadius ==
    InFov /\ pc = "tiles" /\ col > max_col /\ max_col >= tiles(popped.row)[1]
    /\ ScannedCols = {}

(* C22: rounding.  For a Fraction n/den with den > 0 and a depth >= 1,     *)
(* round_ties_up_frac returns floor((2 n depth + den) / (2 den)), the      *)
(* integer k nearest n depth / den with ties towards +infinity:            *)
(* k - 1/2 <= n depth / den < k + 1/2; round_ties_down_frac returns        *)
(* ceil((2 n depth - den) / (2 den)), the nearest with ties towards        *)
(* -infinity: k - 1/2 < n depth / den <= k + 1/2; tiles() is the inclusive *)
(* range from the first of the start_slope to the second of the end_slope: *)
(* the columns c with start depth - 1/2 < c < end depth + 1/2.             *)
C22_Rounding ==
    /\ unit.op = "round_ties_up_frac" /\ unit.args[1].denominator > 0
       => /\ ~unit.panicked
          /\ LET n == unit.args[1].numerator
                 den == unit.args[1].denominator
                 depth == unit.args[2]
                 k == unit.result[1]
             IN  /\ den * (2 * k - 1) <= 2 * n * depth
                 /\ 2 * n * depth < den * (2 * k + 1)
    /\ unit.op = "round_ties_down_frac" /\ unit.args[1].denominator > 0
       => /\ ~unit.panicked
          /\ LET n == unit.args[1].numerator
                 den == unit.args[1].denominator
                 depth == unit.args[2]
                 k == unit.result[1]
             IN  /\ den * (2 * k - 1) < 2 * n * depth
                 /\ 2 * n * depth <= den * (2 * k + 1)
    /\ unit.op = "tiles" /\ unit.args[1].start_slope.denominator > 0
       => LET self == unit.args[1]
              s == self.start_slope
              e == self.end_slope
              reach == 2 * UnitMax * UnitMax
          IN  { c \in (-reach)..reach :
                  unit.result[1][1] <= c /\ c <= unit.result[1][2] }
              = { c \in (-reach)..reach :
                    /\ 2 * s.numerator * self.depth < s.denominator * (2 * c + 1)
                    /\ e.denominator * (2 * c - 1) < 2 * e.numerator * self.depth }

(* a tie with a negative slope was rounded up and down: -3/2 at depth 1    *)
(* gives -1 and -2; the last call rounded it down                          *)
C22_Witness ==
    /\ unit.op = "round_ties_down_frac"
    /\ unit.args = <<Fraction_new(-3, 2), 1>>
    /\ unit.result = <<-2>>
    /\ round_ties_up_frac(unit.args[1], unit.args[2]) = -1

RECURSIVE Gcd(_, _)
Gcd(a, b) == IF b = 0 THEN a ELSE Gcd(b, a % b)

(* a fraction with a positive denominator in lowest terms *)
LowestTerms(f) ==
    LET g == Gcd(Abs(f.numerator), f.denominator)
    IN  <<f.numerator \div g, f.denominator \div g>>

(* C23: fraction comparisons are exact.  For Fractions a and b with        *)
(* positive denominators a.greater_equal(b) holds iff                      *)
(* a.numerator * b.denominator >= b.numerator * a.denominator, and         *)
(* a.less_equal(b) iff the reverse inequality holds; a.greater_equal(b)    *)
(* iff b.less_equal(a); the two hold together exactly when a and b are the *)
(* same rational (equal in lowest terms); and a >= b never has a smaller   *)
(* integer part than b.                                                    *)
C23_ExactComparison ==
    unit.op \in {"greater_equal", "less_equal"}
    /\ unit.args[1].denominator > 0 /\ unit.args[2].denominator > 0
    => LET a == unit.args[1]
           b == unit.args[2]
           v == unit.result[1]
           lhs == a.numerator * b.denominator
           rhs == b.numerator * a.denominator
       IN  /\ ~unit.panicked
           /\ unit.op = "greater_equal"
              => /\ v <=> lhs >= rhs
                 /\ v <=> less_equal(b, a)
                 /\ v /\ less_equal(a, b) <=> LowestTerms(a) = LowestTerms(b)
                 /\ v => a.numerator \div a.denominator
                            >= b.numerator \div b.denominator
           /\ unit.op = "less_equal"
              => /\ v <=> lhs <= rhs
                 /\ v <=> greater_equal(b, a)
                 /\ v /\ greater_equal(a, b) <=> LowestTerms(a) = LowestTerms(b)
                 /\ v => a.numerator \div a.denominator
                            <= b.numerator \div b.denominator

(* test_fraction_comparison: half.greater_equal(quarter) returned true,    *)
(* and the other way round it is false                                     *)
C23_Witness ==
    /\ unit.op = "greater_equal"
    /\ unit.args = <<Fraction_new(1, 2), Fraction_new(1, 4)>>
    /\ unit.result = <<TRUE>>
    /\ ~greater_equal(unit.args[2], unit.args[1])

(* isqrt returned the largest n with n * n <= x, or 0 for x <= 0; the      *)
(* squares are compared by division, (n + 1)^2 not fitting 32 bits for     *)
(* the largest x                                                           *)
IsqrtContract ==
    unit.op = "isqrt"
    => /\ ~unit.panicked
       /\ LET x == unit.args[1]
              n == unit.result[1]
          IN  IF x <= 0 THEN n = 0
              ELSE n >= 1 /\ n <= x \div n /\ x \div (n + 1) < n + 1

(* an iteration of the loop lowers `guess`, which stays positive: the loop *)
(* ends                                                                    *)
IsqrtDescends ==
    unit.op = "isqrt loop" /\ unit'.op = "isqrt loop"
    => unit'.args[2] < unit.args[2] /\ unit'.args[2] >= 1

(* C24: isqrt.  For every x >= 1 the Newton loop terminates (each          *)
(* iteration lowers a positive guess) and isqrt(x) returns the largest     *)
(* integer n with n * n <= x; for every x <= 0 it returns 0; no call       *)
(* panics.                                                                 *)
C24_Isqrt == []IsqrtContract /\ [][IsqrtDescends]_vars

(* the same for every x below i32::MAX *)
C24_IsqrtBelowMax ==
    /\ [](unit.op \in {"isqrt", "isqrt loop"} /\ unit.args[1] # I32Max
           => IsqrtContract)
    /\ [][unit.args # <<>> /\ unit.args[1] # I32Max => IsqrtDescends]_vars

(* test_isqrt: isqrt(10) returned 3 *)
C24_Witness ==
    unit.op = "isqrt" /\ unit.args = <<10>> /\ unit.result = <<3>>

(* a Row as the spec describes it: depth >= 1, slopes with denominators > 0 *)
WellFormed(r) ==
    /\ r.depth >= 1
    /\ r.start_slope.denominator > 0
    /\ r.end_slope.denominator > 0

(* C25: in every state of a compute_fov call every Fraction constructed    *)
(* (the initial bounds, slope(col, depth) and the tile-centre slope        *)
(* col/depth of the tile being visited, the slopes kept in rows) has a     *)
(* denominator > 0, and every Row pending or popped has depth >= 1.        *)
C25_PositiveDenominators ==
    InFov
    => /\ \A k \in DOMAIN rows : WellFormed(rows[k])
       /\ popped # NoPop => WellFormed(row) /\ WellFormed(popped.row)
       /\ pc = "tiles" /\ col <= max_col
          => /\ slope(col, row.depth).denominator > 0
             /\ Fraction_new(col, row.depth).denominator > 0

(* a row whose start_slope was advanced is being scanned while a row cut   *)
(* at a wall is pending: slopes with the denominators 2 * depth are in use *)
C25_Witness ==
    /\ InFov
    /\ pc = "tiles"
    /\ col <= max_col
    /\ row.start_slope = slope(col - 1, row.depth)
    /\ \E k \in DOMAIN rows :
          rows[k].depth = row.depth + 1 /\ rows[k].end_slope.denominator = 2 * row.depth

(* the order of the rationals, for fractions with positive denominators *)
Less(a, b) == a.numerator * b.denominator < b.numerator * a.denominator

AtMost(a, b) == a.numerator * b.denominator <= b.numerator * a.denominator

(* -1 <= start_slope < end_slope <= 1, and a non-empty range of columns    *)
(* within -depth..depth                                                    *)
InsideQuadrant(r) ==
    /\ AtMost(Fraction_new(-1, 1), r.start_slope)
    /\ Less(r.start_slope, r.end_slope)
    /\ AtMost(r.end_slope, Fraction_new(1, 1))
    /\ -r.depth <= tiles(r)[1]
    /\ tiles(r)[1] <= tiles(r)[2]
    /\ tiles(r)[2] <= r.depth

(* C26: every Row on the pending stack of a compute_fov call, and the row  *)
(* being scanned also after its start_slope was advanced, satisfies        *)
(* -1 <= start_slope < end_slope <= 1 as rationals, and its tiles() range  *)
(* is non-empty and lies within -depth..depth.                             *)
C26_SlopesOrdered ==
    InFov
    => /\ \A k \in DOMAIN rows : InsideQuadrant(rows[k])
       /\ popped # NoPop => InsideQuadrant(row) /\ InsideQuadrant(popped.row)

(* the depth-1 row of a quadrant was floor, wall, floor: the row cut at    *)
(* the wall and the continuation with the advanced start_slope are pending *)
C26_Witness ==
    /\ InFov
    /\ pc = "rows"
    /\ rows = <<Row_new(2, Fraction_new(-1, 1), Fraction_new(-1, 2)),
                Row_new(2, Fraction_new(1, 2), Fraction_new(1, 1))>>

(* the positions (cardinal, depth, col) of the quadrants' rows, down to    *)
(* depth n, that transform maps to p from origin o                         *)
Positions(o, p, n) ==
    { t \in (DOMAIN Cardinals) \X (1..n) \X ((-n)..n) :
        /\ Abs(t[3]) <= t[2]
        /\ transform(Cardinals[t[1]], o, t[2], t[3]) = p }

(* C27: quadrant coverage.  For every offset (dx, dy) other than (0, 0)    *)
(* the number of positions (cardinal, depth >= 1, col with |col| <= depth) *)
(* that Quadrant::transform maps to origin + (dx, dy) is 1 when            *)
(* |dx| # |dy| and 2 when |dx| = |dy|, and none maps to the origin; a row  *)
(* with the slopes -1 and 1 at depth d has the tiles -d..d.                *)
C27_QuadrantCoverage ==
    /\ unit.op = "transform"
       => LET o == unit.args[2]
              n == UnitMax + 1
          IN  /\ unit.result[1] # o
              /\ Cardinality(Positions(o, unit.result[1], n))
                   = (IF Abs(unit.result[1][1] - o[1]) = Abs(unit.result[1][2] - o[2])
                      THEN 2 ELSE 1)
              /\ \A dx \in (-UnitMax)..UnitMax, ddy \in (-UnitMax)..UnitMax :
                    Cardinality(Positions(o, <<o[1] + dx, o[2] + ddy>>, n))
                      = (IF dx = 0 /\ ddy = 0 THEN 0
                         ELSE IF Abs(dx) = Abs(ddy) THEN 2 ELSE 1)
    /\ /\ unit.op = "tiles"
       /\ unit.args[1].start_slope = Fraction_new(-1, 1)
       /\ unit.args[1].end_slope = Fraction_new(1, 1)
       => unit.result[1] = <<-unit.args[1].depth, unit.args[1].depth>>

(* the West quadrant's position (depth 2, col -2) was mapped to the        *)
(* diagonal cell (-2, -2), which the North quadrant's (2, -2) is mapped to *)
(* as well                                                                 *)
C27_Witness ==
    /\ unit.op = "transform"
    /\ unit.args = <<"West", <<0, 0>>, 2, -2>>
    /\ unit.result = <<(<<-2, -2>>)>>
    /\ transform("North", <<0, 0>>, 2, -2) = <<-2, -2>>

(* The integers compute_fov computes on the way: every product, sum and    *)
(* difference of its expressions, operand by operand.                      *)

(* `self.numerator * other.denominator`, `other.numerator * self.denominator` *)
compared(self, other) ==
    {self.numerator * other.denominator, other.numerator * self.denominator}

(* `frac.numerator * depth * 2 + frac.denominator`, `frac.denominator * 2` *)
rounded_up(frac, depth) ==
    {frac.numerator * depth, frac.numerator * depth * 2,
     frac.numerator * depth * 2 + frac.denominator, frac.denominator * 2}

(* `frac.numerator * depth * 2 - frac.denominator`, `frac.denominator * 2` *)
rounded_down(frac, depth) ==
    {frac.numerator * depth, frac.numerator * depth * 2,
     frac.numerator * depth * 2 - frac.denominator, frac.denominator * 2}

(* `Fraction::new(2 * col - 1, 2 * depth)` *)
sloped(c, depth) == {2 * c, 2 * c - 1, 2 * depth}

(* `slope.greater_equal(self.start_slope) && slope.less_equal(self.end_slope)` *)
tested(s, self) ==
    compared(s, self.start_slope)
    \cup (IF greater_equal(s, self.start_slope)
          THEN compared(s, self.end_slope) ELSE {})

(* `dx * dx + dy * dy`, coordinates relative to the origin *)
measured(tile, o) ==
    LET dx == tile[1] - o[1]
        ddy == tile[2] - o[2]
    IN  {dx, ddy, dx * dx, ddy * ddy, dx * dx + ddy * ddy}

(* what the steps enabled in the current state compute: row.tiles() of a   *)
(* pending row that passes the depth check, one iteration of the loop over *)
(* the columns, row.next() at the end of the row                           *)
Computed ==
    {max_radius_squared}
    \cup (IF pc = "rows"
          THEN UNION { rounded_up(rows[k].start_slope, rows[k].depth)
                       \cup rounded_down(rows[k].end_slope, rows[k].depth) :
                         k \in { j \in DOMAIN rows :
                                   ~too_deep(rows[j], max_radius) } }
          ELSE {})
    \cup (IF pc = "tiles" /\ col <= max_col
          THEN LET tile == transform(Cardinals[cardinal], origin, row.depth, col)
                   tile_blocking == is_blocking(map, tile)
               IN  measured(tile, origin)
                   \cup (IF out_of_radius(tile, origin, max_radius_squared) THEN {}
                         ELSE (IF tile_blocking
                               THEN sloped(col, row.depth)
                                    \cup tested(slope(col, row.depth), row)
                               ELSE tested(Fraction_new(col, row.depth), row))
                              \cup (IF \/ wall_to_floor(prev_tile_blocking, tile_blocking)
                                       \/ floor_to_wall(prev_tile_blocking, tile_blocking)
                                    THEN sloped(col, row.depth) \cup {row.depth + 1}
                                    ELSE {}))
          ELSE {})
    \cup (IF pc = "tiles" /\ col > max_col /\ ends_on_floor(prev_tile_blocking)
          THEN {row.depth + 1} ELSE {})

(* C28: overflow bound.  In a compute_fov call with max_radius R >= 1,     *)
(* every integer computed (R^2, dx*dx + dy*dy, the cross-products of the   *)
(* comparisons, the numerators and denominators of the roundings and of    *)
(* slope) has absolute value at most 4 R^2.                                *)
C28_OverflowBound ==
    InFov /\ max_radius >= 1
    => \A v \in Computed : Abs(v) <= 4 * max_radius * max_radius

(* a step of a call with a positive radius computes a value beyond 2 R^2 *)
C28_Witness ==
    /\ InFov
    /\ max_radius >= 1
    /\ \E v \in Computed : Abs(v) > 2 * max_radius * max_radius

(* the caller has the visible sets of a call and of the same call on the   *)
(* reflected map                                                           *)
Mirrored == pc = "idle" /\ reflected # "none" /\ Len(calls) = 2

(* C29: mirror symmetry.  Reflecting the map across the vertical or the    *)
(* horizontal axis through the origin reflects the visible set, opaque and *)
(* transparent cells alike: visible(reflect(map)) = reflect(visible(map)). *)
C29_MirrorSymmetry ==
    Mirrored
    => calls[2].visible = reflect_set(reflected, calls[1].origin, calls[1].visible)

(* the transparent cells of the two visible sets are mirror images *)
C29_FloorsMirrored ==
    Mirrored
    => { p \in calls[2].visible : ~is_blocking(map, p) }
       = reflect_set(reflected, calls[1].origin,
           { p \in calls[1].visible :
               ~is_blocking(reflect_map(reflected, calls[1].origin, map), p) })

(* the two visible sets differ in a wall beside the origin on a diagonal *)
C29_CornerWall ==
    /\ Mirrored
    /\ reflected = "vertical"
    /\ map.flipped = {<<-1, -1>>}
    /\ calls[1].radius = 2
    /\ <<1, -1>> \in calls[1].visible
    /\ <<-1, -1>> \notin calls[2].visible

(* the cell at distance d from the origin along the axis of a quadrant:    *)
(* column 0 of its rows                                                    *)
OnAxis(k, d) == transform(Cardinals[k], origin, d, 0)

(* C30: axis occlusion.  If the cell at distance d >= 1 from the origin    *)
(* along a cardinal axis is opaque, no cell farther along the same axis is *)
(* in the visible set, be it opaque or transparent, whatever the rest of   *)
(* the map.                                                                *)
C30_AxisOcclusion ==
    InFov
    => \A k \in DOMAIN Cardinals : \A d \in 1..max_radius :
         is_blocking(map, OnAxis(k, d))
         => \A far \in (d + 1)..(max_radius + 1) : OnAxis(k, far) \notin Visible

(* a call returns with a wall next to the origin on the North axis marked, *)
(* and the transparent cell behind it, inside the radius, not marked       *)
C30_Witness ==
    /\ Returning
    /\ max_radius >= 2
    /\ is_blocking(map, OnAxis(1, 1))
    /\ OnAxis(1, 1) \in Visible
    /\ ~is_blocking(map, OnAxis(1, 2))
    /\ OnAxis(1, 2) \notin Visible
    /\ OnAxis(2, 2) \in Visible

====
